---- MODULE Spec2Model ----
(***************************************************************************)
(* Model of the Zealy notifier bot (src/bot.py): the snapshot file, the    *)
(* check cycle (load, fetch, diff, notify, save), the daily summary cycle  *)
(* and the scheduling loop that runs them one at a time.                   *)
(*                                                                         *)
(* The persisted file is modelled by its content, a sequence of JSON       *)
(* tokens, so that a write that stops half way leaves a prefix of the      *)
(* document and json.load is a parser that can fail.  A Python dict is an  *)
(* insertion-ordered sequence of key/value pairs.                          *)
(***************************************************************************)
EXTENDS Integers, Sequences, FiniteSets, TLC

\* ------------------------------------------------------------------ bounds
\* Most items all the fetches of one check cycle return, taken together.
MaxItems == 2

\* ----------------------------------------------------------- configuration
COMMUNITIES == <<"alpha", "beta">>

Url(community_slug) == <<"https://zealy.io/cw", community_slug, "questboard">>

\* What a scraped quest div can carry: an id and a title snippet.  Two of the
\* divs share an id and differ in their title.
QuestDivs ==
    { [id |-> "1", title |-> "Quest A"],
      [id |-> "1", title |-> "Quest A2"],
      [id |-> "2", title |-> "Quest B"] }

Quest(div, community_slug) ==
    [id |-> div.id, title |-> div.title, url |-> Url(community_slug)]

Quests(community_slug) == { Quest(div, community_slug) : div \in QuestDivs }

SeqsUpTo(S, n) == UNION { [1..m -> S] : m \in 0..n }

\* ------------------------------------------------------------ Python dicts
EmptyDict == <<>>

DictHas(d, k) == \E n \in 1..Len(d) : d[n].k = k

DictGet(d, k, default) ==
    IF DictHas(d, k)
    THEN d[CHOOSE n \in 1..Len(d) : d[n].k = k].v
    ELSE default

DictSet(d, k, v) ==
    IF DictHas(d, k)
    THEN [n \in 1..Len(d) |-> IF d[n].k = k THEN [k |-> k, v |-> v] ELSE d[n]]
    ELSE Append(d, [k |-> k, v |-> v])

\* --------------------------------------------------------- JSON on the file
NoQuest == [id |-> "", title |-> "", url |-> Url("")]

Tok(t, k, q) == [t |-> t, k |-> k, q |-> q]

DumpList(quests) ==
    <<Tok("[", "", NoQuest)>>
    \o [n \in 1..Len(quests) |-> Tok("item", "", quests[n])]
    \o <<Tok("]", "", NoQuest)>>

RECURSIVE DumpEntries(_, _)
DumpEntries(data, n) ==
    IF n > Len(data) THEN <<>>
    ELSE <<Tok("key", data[n].k, NoQuest)>> \o DumpList(data[n].v)
         \o DumpEntries(data, n + 1)

\* json.dump(data, f): the document, in the dict's own order.
JsonDump(data) ==
    <<Tok("{", "", NoQuest)>> \o DumpEntries(data, 1) \o <<Tok("}", "", NoQuest)>>

RECURSIVE ParseFrom(_, _, _, _, _, _)
ParseFrom(toks, pos, st, acc, key, lst) ==
    IF pos > Len(toks)
    THEN [ok |-> st = "end", data |-> IF st = "end" THEN acc ELSE EmptyDict]
    ELSE LET tk == toks[pos] IN
         CASE st = "start" /\ tk.t = "{" ->
                ParseFrom(toks, pos + 1, "obj", acc, key, lst)
           [] st = "obj" /\ tk.t = "key" ->
                ParseFrom(toks, pos + 1, "key", acc, tk.k, <<>>)
           [] st = "obj" /\ tk.t = "}" ->
                ParseFrom(toks, pos + 1, "end", acc, key, lst)
           [] st = "key" /\ tk.t = "[" ->
                ParseFrom(toks, pos + 1, "arr", acc, key, <<>>)
           [] st = "arr" /\ tk.t = "item" ->
                ParseFrom(toks, pos + 1, "arr", acc, key, Append(lst, tk.q))
           [] st = "arr" /\ tk.t = "]" ->
                ParseFrom(toks, pos + 1, "obj", DictSet(acc, key, lst), key, <<>>)
           [] OTHER -> [ok |-> FALSE, data |-> EmptyDict]

\* json.load(f): the parsed document, or ok = FALSE where it raises.
JsonLoad(content) == ParseFrom(content, 1, "start", EmptyDict, "", <<>>)

\* Mutant: the file is never found, every load starts from {}.
load_previous_data_NoFile(f) == [ok |-> TRUE, data |-> EmptyDict]

\* load_previous_data(): {} when the file does not exist, else json.load.
load_previous_data(f) ==
    IF f.exists THEN JsonLoad(f.content) ELSE [ok |-> TRUE, data |-> EmptyDict]

Prefixes(s) == { SubSeq(s, 1, n) : n \in 0..Len(s) }

\* ------------------------------------------------------------------- state
VARIABLES
    file,           \* DATA_FILE: [exists, content]
    pc,             \* where the process is
    job,            \* the job the scheduling loop is running
    previous_data,  \* check_for_updates / send_daily_summary local
    current_data,   \* check_for_updates local
    i,              \* index into COMMUNITIES of the for loop
    new_quests,     \* check_for_updates local
    j,              \* index into new_quests of the inner for loop
    err,            \* the exception the top-level handler caught, "" if none
    sent,           \* new-quest messages attempted in this cycle, and how each went
    summaries,      \* summary messages attempted in this cycle
    errors,         \* error alerts attempted in this cycle
    fetchFailed,    \* communities whose fetch failed in this cycle
    outcome,        \* of the latest cycle: "running", "done", "aborted", "killed"
    lastCheck       \* the latest check cycle that has ended

vars == <<file, pc, job, previous_data, current_data, i, new_quests, j, err,
          sent, summaries, errors, fetchFailed, outcome, lastCheck>>

locals == <<previous_data, current_data, i, new_quests, j>>

NoRun == [done |-> FALSE, data |-> EmptyDict]

\* main(): the initial run of check_for_updates() on a machine that has no
\* snapshot file yet.
Init ==
    /\ file = [exists |-> FALSE, content |-> <<>>]
    /\ pc = "load"
    /\ job = "check"
    /\ previous_data = EmptyDict
    /\ current_data = EmptyDict
    /\ i = 1
    /\ new_quests = <<>>
    /\ j = 1
    /\ err = ""
    /\ sent = <<>>
    /\ summaries = <<>>
    /\ errors = 0
    /\ fetchFailed = {}
    /\ outcome = "running"
    /\ lastCheck = NoRun

\* ------------------------------------------------------------ check cycle
\* old_ids = {q.get("id") for q in old_quests if isinstance(q, dict)}; every
\* element of a list this program wrote is a dict.
old_ids(old_quests) == { old_quests[n].id : n \in 1..Len(old_quests) }

NotIn(q, ids) == q.id \notin ids

\* Mutant: a quest is new when the whole quest, not its id, is unknown.
NewQuests_ByEquality(current_quests, old_quests) ==
    SelectSeq(current_quests,
              LAMBDA q : \A n \in 1..Len(old_quests) : old_quests[n] # q)

\* Mutant: a quest is also dropped when its id occurred earlier in the fetch.
NewQuests_Distinct(current_quests, old_quests) ==
    LET keep(n) == /\ NotIn(current_quests[n], old_ids(old_quests))
                   /\ \A m \in 1..(n - 1) : current_quests[m].id # current_quests[n].id
        RECURSIVE From(_)
        From(n) == IF n > Len(current_quests) THEN <<>>
                   ELSE (IF keep(n) THEN <<current_quests[n]>> ELSE <<>>) \o From(n + 1)
    IN From(1)

\* new_quests = [q for q in current_quests if q.get("id") not in old_ids]
NewQuests(current_quests, old_quests) ==
    SelectSeq(current_quests, LAMBDA q : NotIn(q, old_ids(old_quests)))

\* old_quests = previous_data.get(community, [])
OldQuests(prev, community) == DictGet(prev, community, <<>>)

RECURSIVE Fetched(_, _)
Fetched(data, n) == IF n > Len(data) THEN 0 ELSE Len(data[n].v) + Fetched(data, n + 1)

\* The for loop moves to the next community, or leaves the loop for the save.
NextCommunity ==
    /\ i' = i + 1
    /\ new_quests' = <<>>
    /\ j' = 1
    /\ pc' = IF i + 1 > Len(COMMUNITIES) THEN "save" ELSE "fetch"

\* Mutant: the cycle fills in the dict it loaded, current_data = previous_data.
CheckLoad_KeepsPrevious ==
    /\ pc = "load" /\ job = "check"
    /\ load_previous_data(file).ok
    /\ previous_data' = load_previous_data(file).data
    /\ current_data' = load_previous_data(file).data
    /\ i' = 1 /\ new_quests' = <<>> /\ j' = 1
    /\ pc' = IF Len(COMMUNITIES) = 0 THEN "save" ELSE "fetch"
    /\ UNCHANGED <<file, job, err, sent, summaries, errors, fetchFailed,
                   outcome, lastCheck>>

\* Lines 108-110: the snapshot is loaded and current_data starts empty.
CheckLoad ==
    /\ pc = "load" /\ job = "check"
    /\ load_previous_data(file).ok
    /\ previous_data' = load_previous_data(file).data
    /\ current_data' = EmptyDict
    /\ i' = 1 /\ new_quests' = <<>> /\ j' = 1
    /\ pc' = IF Len(COMMUNITIES) = 0 THEN "save" ELSE "fetch"
    /\ UNCHANGED <<file, job, err, sent, summaries, errors, fetchFailed, outcome, lastCheck>>

\* json.load raises in load_previous_data(): the handler of the running job
\* catches it.
LoadRaises ==
    /\ pc = "load"
    /\ ~load_previous_data(file).ok
    /\ err' = "JSONDecodeError"
    /\ pc' = "error"
    /\ UNCHANGED <<file, job, locals, sent, summaries, errors, fetchFailed, outcome, lastCheck>>

\* Mutant: the messages are queued and the loop goes on to the next fetch;
\* the queue is sent after the last community.
Process_Batched(current_quests) ==
    LET community == COMMUNITIES[i]
        news == NewQuests(current_quests, OldQuests(previous_data, community))
        pending == new_quests \o news
    IN /\ current_data' = DictSet(current_data, community, current_quests)
       /\ IF i < Len(COMMUNITIES)
          THEN /\ new_quests' = pending
               /\ j' = 1
               /\ i' = i + 1
               /\ pc' = "fetch"
          ELSE IF pending # <<>>
               THEN /\ new_quests' = pending
                    /\ j' = 1
                    /\ i' = i
                    /\ pc' = "notify"
               ELSE NextCommunity

\* Lines 113-123 for one community, given what fetch_tasks returned.
Process(current_quests) ==
    LET community == COMMUNITIES[i]
        news == NewQuests(current_quests, OldQuests(previous_data, community))
    IN /\ current_data' = DictSet(current_data, community, current_quests)
       /\ IF news # <<>>
          THEN /\ new_quests' = news
               /\ j' = 1
               /\ pc' = "notify"
               /\ i' = i
          ELSE NextCommunity

\* fetch_tasks returns the quests it scraped.
FetchReturns ==
    /\ pc = "fetch" /\ job = "check"
    /\ \E current_quests \in
           SeqsUpTo(Quests(COMMUNITIES[i]), MaxItems - Fetched(current_data, 1)) :
         Process(current_quests)
    /\ UNCHANGED <<file, job, previous_data, err, sent, summaries, errors,
                   fetchFailed, outcome, lastCheck>>

\* Mutant: fetch_tasks lets the failure escape to the handler of the cycle.
FetchFails_Propagates ==
    /\ pc = "fetch" /\ job = "check"
    /\ fetchFailed' = fetchFailed \cup {COMMUNITIES[i]}
    /\ err' = "RequestException"
    /\ pc' = "error"
    /\ UNCHANGED <<file, job, locals, sent, summaries, errors, outcome, lastCheck>>

\* Mutant: after a failed fetch the community keeps the list it had in the
\* loaded snapshot.
FetchFails_KeepsOld ==
    /\ pc = "fetch" /\ job = "check"
    /\ current_data' = DictSet(current_data, COMMUNITIES[i],
                               OldQuests(previous_data, COMMUNITIES[i]))
    /\ NextCommunity
    /\ fetchFailed' = fetchFailed \cup {COMMUNITIES[i]}
    /\ UNCHANGED <<file, job, previous_data, err, sent, summaries, errors,
                   outcome, lastCheck>>

\* fetch_tasks catches a request or parse failure and returns [].
FetchFails ==
    /\ pc = "fetch" /\ job = "check"
    /\ Process(<<>>)
    /\ fetchFailed' = fetchFailed \cup {COMMUNITIES[i]}
    /\ UNCHANGED <<file, job, previous_data, err, sent, summaries, errors, outcome, lastCheck>>

\* Lines 124-140 for one quest: the message is sent, or the send raises and
\* the inner handler logs it.
Notify(delivered) ==
    /\ pc = "notify" /\ job = "check"
    /\ sent' = Append(sent, [community |-> COMMUNITIES[i], quest |-> new_quests[j],
                             delivered |-> delivered])
    /\ IF j < Len(new_quests)
       THEN /\ j' = j + 1
            /\ UNCHANGED <<i, new_quests, pc>>
       ELSE NextCommunity
    /\ UNCHANGED <<file, job, previous_data, current_data, err, summaries,
                   errors, fetchFailed, outcome, lastCheck>>

NotifySent == Notify(TRUE)

\* Mutant: the send is outside the inner try, its failure ends the cycle.
NotifyRaises_Propagates ==
    /\ pc = "notify" /\ job = "check"
    /\ sent' = Append(sent, [community |-> COMMUNITIES[i], quest |-> new_quests[j],
                             delivered |-> FALSE])
    /\ err' = "TelegramError"
    /\ pc' = "error"
    /\ UNCHANGED <<file, job, locals, summaries, errors, fetchFailed, outcome,
                   lastCheck>>

\* Mutant: a quest whose message failed is taken out of current_data, to be
\* found new again by the next cycle.
NotifyRaises_Requeues ==
    /\ pc = "notify" /\ job = "check"
    /\ sent' = Append(sent, [community |-> COMMUNITIES[i], quest |-> new_quests[j],
                             delivered |-> FALSE])
    /\ current_data' =
         DictSet(current_data, COMMUNITIES[i],
                 SelectSeq(DictGet(current_data, COMMUNITIES[i], <<>>),
                           LAMBDA q : q # new_quests[j]))
    /\ IF j < Len(new_quests)
       THEN /\ j' = j + 1
            /\ UNCHANGED <<i, new_quests, pc>>
       ELSE NextCommunity
    /\ UNCHANGED <<file, job, previous_data, err, summaries, errors,
                   fetchFailed, outcome, lastCheck>>

NotifyRaises == Notify(FALSE)

\* Mutant: the file is opened to append, what it held stays.
SaveOpen_Append ==
    /\ pc = "save" /\ job = "check"
    /\ file' = [exists |-> TRUE, content |-> file.content]
    /\ pc' = "dump"
    /\ UNCHANGED <<job, locals, err, sent, summaries, errors, fetchFailed,
                   outcome, lastCheck>>

\* save_current_data: open(DATA_FILE, "w") creates or truncates the file.
SaveOpen ==
    /\ pc = "save" /\ job = "check"
    /\ file' = [exists |-> TRUE, content |-> <<>>]
    /\ pc' = "dump"
    /\ UNCHANGED <<job, locals, err, sent, summaries, errors, fetchFailed, outcome, lastCheck>>

\* The cycle is over: control is back in the scheduling loop.
EndCycle(how) ==
    /\ pc' = "idle"
    /\ outcome' = how
    /\ previous_data' = EmptyDict
    /\ current_data' = EmptyDict
    /\ i' = 1 /\ new_quests' = <<>> /\ j' = 1

\* json.dump writes the whole document where open left the file, the file is
\* closed, line 145.
SaveDump ==
    /\ pc = "dump" /\ job = "check"
    /\ file' = [exists |-> TRUE, content |-> file.content \o JsonDump(current_data)]
    /\ lastCheck' = [done |-> TRUE, data |-> current_data]
    /\ EndCycle("done")
    /\ UNCHANGED <<job, err, sent, summaries, errors, fetchFailed>>

\* A write of json.dump raises (disk full, I/O error): what was written so
\* far stays in the file.
SaveDumpRaises ==
    /\ pc = "dump" /\ job = "check"
    /\ \E written \in Prefixes(JsonDump(current_data)) \ {JsonDump(current_data)} :
         file' = [exists |-> TRUE, content |-> file.content \o written]
    /\ err' = "OSError"
    /\ pc' = "error"
    /\ UNCHANGED <<job, locals, sent, summaries, errors, fetchFailed, outcome, lastCheck>>

\* Lines 147-150 and 179-182: the error is logged and send_error_to_telegram
\* tries to report it; a failure of that send is logged only.
ErrorReport ==
    /\ pc = "error"
    /\ errors' = errors + 1
    /\ lastCheck' = IF job = "check" THEN NoRun ELSE lastCheck
    /\ EndCycle("aborted")
    /\ UNCHANGED <<file, job, err, sent, summaries, fetchFailed>>

\* ---------------------------------------------------------- summary cycle
\* Mutant: the total counts the communities, not their quests.
Total_CountsCommunities(data, n) == Len(data)

RECURSIVE Total(_, _)
Total(data, n) == IF n > Len(data) THEN 0 ELSE Len(data[n].v) + Total(data, n + 1)

\* Lines 160-174: one line per community of the snapshot and the total.
SummaryMessage(data) ==
    [total |-> Total(data, 1),
     lines |-> [n \in 1..Len(data) |-> [community |-> data[n].k,
                                        count |-> Len(data[n].v)]]]

SummaryLoad ==
    /\ pc = "load" /\ job = "summary"
    /\ load_previous_data(file).ok
    /\ previous_data' = load_previous_data(file).data
    /\ pc' = "send"
    /\ UNCHANGED <<file, job, current_data, i, new_quests, j, err, sent,
                   summaries, errors, fetchFailed, outcome, lastCheck>>

\* Mutant: once the summary is out, the snapshot is reset to {}.
SummarySent_Resets ==
    /\ pc = "send" /\ job = "summary"
    /\ summaries' = Append(summaries, SummaryMessage(previous_data))
    /\ file' = [exists |-> TRUE, content |-> JsonDump(EmptyDict)]
    /\ EndCycle("done")
    /\ UNCHANGED <<job, err, sent, errors, fetchFailed, lastCheck>>

\* Line 177 delivers the message.
SummarySent ==
    /\ pc = "send" /\ job = "summary"
    /\ summaries' = Append(summaries, SummaryMessage(previous_data))
    /\ EndCycle("done")
    /\ UNCHANGED <<file, job, err, sent, errors, fetchFailed, lastCheck>>

\* Line 177 raises: the handler of send_daily_summary catches it.
SummaryRaises ==
    /\ pc = "send" /\ job = "summary"
    /\ summaries' = Append(summaries, SummaryMessage(previous_data))
    /\ err' = "TelegramError"
    /\ pc' = "error"
    /\ UNCHANGED <<file, job, locals, sent, errors, fetchFailed,
                   outcome, lastCheck>>

\* -------------------------------------------------------------- scheduler
StartCycle(which) ==
    /\ job' = which
    /\ pc' = "load"
    /\ err' = ""
    /\ sent' = <<>>
    /\ summaries' = <<>>
    /\ errors' = 0
    /\ fetchFailed' = {}
    /\ outcome' = "running"

\* schedule.run_pending() runs a due job to its end before anything else.
RunCheck ==
    /\ pc = "idle"
    /\ StartCycle("check")
    /\ UNCHANGED <<file, locals, lastCheck>>

\* Mutant: the scheduler starts the daily job in a thread of its own, whatever
\* the loop is running.
RunSummary_Preempts ==
    /\ pc # "crashed"
    /\ StartCycle("summary")
    /\ UNCHANGED <<file, locals, lastCheck>>

RunSummary ==
    /\ pc = "idle"
    /\ StartCycle("summary")
    /\ UNCHANGED <<file, locals, lastCheck>>

\* ----------------------------------------------------------- health check
\* The Flask thread answers GET / with a constant string, at any moment of
\* the main thread.
home ==
    /\ pc # "crashed"
    /\ UNCHANGED vars

\* -------------------------------------------------------- process failure
Killed ==
    /\ pc' = "crashed"
    /\ outcome' = IF pc = "idle" THEN outcome ELSE "killed"
    /\ lastCheck' = IF pc # "idle" /\ job = "check" THEN NoRun ELSE lastCheck
    /\ previous_data' = EmptyDict
    /\ current_data' = EmptyDict
    /\ i' = 1 /\ new_quests' = <<>> /\ j' = 1
    /\ err' = ""
    /\ sent' = <<>>
    /\ summaries' = <<>>
    /\ errors' = 0
    /\ fetchFailed' = {}
    /\ UNCHANGED job

\* The process dies (kill, power loss, KeyboardInterrupt) anywhere but in the
\* middle of json.dump.
Crash ==
    /\ pc \notin {"crashed", "dump"}
    /\ Killed
    /\ UNCHANGED file

\* The process dies inside json.dump: some prefix of the document is on disk.
CrashInDump ==
    /\ pc = "dump"
    /\ \E written \in Prefixes(JsonDump(current_data)) :
         file' = [exists |-> TRUE, content |-> file.content \o written]
    /\ Killed

\* The process is started again: main() and its initial check.
Restart ==
    /\ pc = "crashed"
    /\ StartCycle("check")
    /\ UNCHANGED <<file, locals, lastCheck>>

Next ==
    \/ CheckLoad
    \/ LoadRaises
    \/ FetchReturns
    \/ FetchFails
    \/ NotifySent
    \/ NotifyRaises
    \/ SaveOpen
    \/ SaveDump
    \/ SaveDumpRaises
    \/ ErrorReport
    \/ SummaryLoad
    \/ SummarySent
    \/ SummaryRaises
    \/ RunCheck
    \/ RunSummary
    \/ home
    \/ Crash
    \/ CrashInDump
    \/ Restart

Spec == Init /\ [][Next]_vars

\* ------------------------------------------------------------ properties
InCheck == job = "check" /\ pc \in {"fetch", "notify", "save", "dump"}

Loaded(f) == load_previous_data(f).data

SentTo(community) == SelectSeq(sent, LAMBDA m : m.community = community)

QuestsOf(msgs) == [n \in 1..Len(msgs) |-> msgs[n].quest]

Now(community) == DictGet(current_data, community, <<>>)

Before(community) == DictGet(previous_data, community, <<>>)

SeenId(q, old) == \E n \in 1..Len(old) : old[n].id = q.id

\* cur without the items whose id occurs in old, in cur's order.
RECURSIVE Unseen(_, _)
Unseen(cur, old) ==
    IF cur = <<>> THEN <<>>
    ELSE (IF SeenId(Head(cur), old) THEN <<>> ELSE <<Head(cur)>>)
         \o Unseen(Tail(cur), old)

\* C1: in a check cycle, the quests a new-quest message was attempted for, for
\* a community whose turn is over, are the fetched quests whose id is not
\* among the ids of the loaded snapshot's list for it, in fetch order; for the
\* community being notified they are the first j - 1 of those, and for a
\* community whose turn has not come there are none.
C1_AttemptsAreTheUnseen ==
    InCheck =>
      \A n \in 1..Len(COMMUNITIES) :
        LET c == COMMUNITIES[n]
            expected == Unseen(Now(c), Before(c))
            attempted == QuestsOf(SentTo(c))
        IN /\ n < i => attempted = expected
           /\ (n = i /\ pc = "notify") => attempted = SubSeq(expected, 1, j - 1)
           /\ (n > i \/ (n = i /\ pc = "fetch")) => attempted = <<>>

\* A community's turn is over; its first fetched quest has a known id under
\* another title and is skipped, its second is new and is the one attempted.
C1_Witness ==
    /\ job = "check" /\ pc = "save"
    /\ \E n \in 1..Len(COMMUNITIES) :
         LET c == COMMUNITIES[n] IN
         /\ Len(Now(c)) = 2
         /\ SeenId(Now(c)[1], Before(c))
         /\ \A m \in 1..Len(Before(c)) : Before(c)[m] # Now(c)[1]
         /\ QuestsOf(SentTo(c)) = <<Now(c)[2]>>

\* C2: when the process dies in the middle of a check cycle that has loaded
\* its snapshot, the file still holds exactly that snapshot.
C2_CrashLeavesSnapshot ==
    [][(InCheck /\ pc' = "crashed")
         => load_previous_data(file') = [ok |-> TRUE, data |-> previous_data]]_vars

\* C3: load never fails: whenever a cycle is about to load, whatever the file
\* holds, load_previous_data returns a snapshot.
C3_LoadNeverFails == pc = "load" => load_previous_data(file).ok

Undelivered == \E n \in 1..Len(sent) : ~sent[n].delivered

Keys(data) == [n \in 1..Len(data) |-> data[n].k]

\* C4: a failed fetch is soft.  The failing community's entry is the empty
\* list and no message is attempted for it; the cycle aborts only if the save
\* itself fails; a completed cycle has saved an entry for every community, the
\* failing one's empty; and the step in which the fetch fails sends nothing
\* and moves the loop on to the next community, or to the save after the last.
C4_FetchFailureIsSoft ==
    /\ [](job = "check" =>
            \A c \in fetchFailed :
              /\ SentTo(c) = <<>>
              /\ InCheck => (DictHas(current_data, c) /\ Now(c) = <<>>)
              /\ pc = "error" => err = "OSError"
              /\ (pc = "idle" /\ outcome = "done") =>
                   /\ load_previous_data(file).ok
                   /\ Keys(Loaded(file)) = COMMUNITIES
                   /\ DictGet(Loaded(file), c, <<c>>) = <<>>)
    /\ [][(pc = "fetch" /\ fetchFailed' \ fetchFailed # {}) =>
            /\ sent' = sent
            /\ i' = i + 1
            /\ pc' = IF i = Len(COMMUNITIES) THEN "save" ELSE "fetch"]_vars

\* The fetch of alpha failed, beta's quests were notified, the cycle is
\* complete and the file holds [] for alpha and beta's quests.
C4_Witness ==
    /\ job = "check" /\ pc = "idle" /\ outcome = "done"
    /\ fetchFailed = {"alpha"}
    /\ SentTo("beta") # <<>>
    /\ DictGet(Loaded(file), "alpha", <<"none">>) = <<>>
    /\ Len(DictGet(Loaded(file), "beta", <<>>)) = Len(SentTo("beta"))

\* C5: a failed delivery is soft.  With an undelivered message in the cycle,
\* the handler runs (and an error alert is attempted) only if the save fails;
\* once the loop is over, a message has been attempted for every new quest of
\* every community; and the step in which a delivery fails goes on to the
\* next new quest of the community, else to the next community or the save.
C5_DeliveryFailureIsSoft ==
    /\ []((job = "check" /\ Undelivered) =>
            /\ (pc = "error" \/ errors > 0) => err = "OSError"
            /\ pc \in {"save", "dump"} =>
                 \A n \in 1..Len(COMMUNITIES) :
                   Len(SentTo(COMMUNITIES[n]))
                     = Len(Unseen(Now(COMMUNITIES[n]), Before(COMMUNITIES[n]))))
    /\ [][(pc = "notify" /\ Len(sent') > Len(sent) /\ ~sent'[Len(sent')].delivered) =>
            /\ err' = err /\ errors' = errors
            /\ j < Len(new_quests) => (pc' = "notify" /\ j' = j + 1 /\ i' = i)
            /\ j = Len(new_quests) =>
                 (i' = i + 1 /\ pc' = IF i = Len(COMMUNITIES) THEN "save" ELSE "fetch")]_vars

\* The first message of the cycle was not delivered, a later one, for the
\* next community, was, and the cycle completed and saved without an alert.
C5_Witness ==
    /\ job = "check" /\ pc = "idle" /\ outcome = "done"
    /\ Len(sent) = 2
    /\ ~sent[1].delivered /\ sent[2].delivered
    /\ sent[1].community = "alpha" /\ sent[2].community = "beta"
    /\ errors = 0
    /\ Fetched(Loaded(file), 1) = 2

\* C6: a check cycle the scheduling loop starts right after a cycle that was
\* aborted by its handler finds a snapshot it can load, and so goes on to
\* fetch, diff, notify and save.
C6_NextCheckProceeds ==
    [][(pc = "idle" /\ outcome = "aborted" /\ pc' = "load" /\ job' = "check")
         => load_previous_data(file').ok]_vars

\* C7: in a check cycle, for a community the loaded snapshot has no entry
\* for and whose turn is over, a message was attempted for every fetched
\* quest, one each, in fetch order.
C7_UnknownSourceAllNew ==
    InCheck =>
      \A n \in 1..Len(COMMUNITIES) :
        (n < i /\ ~DictHas(previous_data, COMMUNITIES[n]))
          => QuestsOf(SentTo(COMMUNITIES[n])) = Now(COMMUNITIES[n])

\* No snapshot file: alpha's two fetched quests, which share an id, were both
\* notified.
C7_Witness ==
    /\ job = "check" /\ pc = "save"
    /\ ~file.exists
    /\ ~DictHas(previous_data, "alpha")
    /\ Len(Now("alpha")) = 2
    /\ Now("alpha")[1].id = Now("alpha")[2].id
    /\ Len(SentTo("alpha")) = 2

\* C8: when the check cycle before this one completed and saved, and this
\* cycle has fetched the same list for every community, this cycle has
\* attempted no new-quest message.
C8_SameDataNothingNew ==
    (job = "check" /\ pc = "save" /\ lastCheck.done /\ current_data = lastCheck.data)
      => sent = <<>>

\* The repeated fetch has two quests with one id.
C8_Witness ==
    /\ job = "check" /\ pc = "save" /\ lastCheck.done
    /\ current_data = lastCheck.data
    /\ Len(Now("beta")) = 2
    /\ Now("beta")[1].id = Now("beta")[2].id
    /\ sent = <<>>

\* C9: after a check cycle has saved its snapshot, and until the next save
\* opens the file, loading the file gives exactly the snapshot saved, and a
\* cycle that has loaded holds it as previous_data.
C9_SaveThenLoad ==
    lastCheck.done =>
      /\ pc \in {"idle", "load", "crashed"} =>
           load_previous_data(file) = [ok |-> TRUE, data |-> lastCheck.data]
      /\ ((job = "check" /\ pc \in {"fetch", "notify", "save"})
          \/ (job = "summary" /\ pc = "send")) =>
           previous_data = lastCheck.data

\* A snapshot with two quests under alpha and an empty list under beta was
\* saved and has been loaded by the next check cycle.
C9_Witness ==
    /\ job = "check" /\ pc = "fetch" /\ lastCheck.done
    /\ Len(DictGet(lastCheck.data, "alpha", <<>>)) = 2
    /\ DictGet(lastCheck.data, "beta", <<"none">>) = <<>>
    /\ previous_data = lastCheck.data

RECURSIVE SumCounts(_, _)
SumCounts(lines, n) ==
    IF n > Len(lines) THEN 0 ELSE lines[n].count + SumCounts(lines, n + 1)

\* C10: a summary cycle that has loaded a snapshot attempts one summary
\* message and no more; the message has one line per community of the
\* snapshot in the file, giving the length of that community's list, and its
\* total is the sum of the counts of its lines.
C10_SummaryCounts ==
    (job = "summary" /\ pc # "crashed") =>
      /\ Len(summaries) <= 1
      /\ (outcome = "done" \/ err = "TelegramError") => Len(summaries) = 1
      /\ \A n \in 1..Len(summaries) :
           LET m == summaries[n]
               snap == Loaded(file)
           IN /\ Len(m.lines) = Len(snap)
              /\ \A k \in 1..Len(snap) :
                   m.lines[k] = [community |-> snap[k].k, count |-> Len(snap[k].v)]
              /\ m.total = SumCounts(m.lines, 1)

\* The summary of {alpha: two quests, beta: []} was sent: total 2, alpha 2,
\* beta 0.
C10_Witness ==
    /\ job = "summary" /\ pc = "idle" /\ outcome = "done"
    /\ summaries = << [total |-> 2,
                       lines |-> << [community |-> "alpha", count |-> 2],
                                    [community |-> "beta", count |-> 0] >>] >>

\* C12: a cycle starts only when the scheduling loop is idle or the process
\* has just started, never while another cycle is between its load and its
\* end; the job in progress stays the same until it ends; and the snapshot
\* file is changed by nothing but the save of a check cycle, so by no step of
\* the health-check thread or of a summary cycle.
C12_OneCycleAtATime ==
    [][/\ pc' = "load" => pc \in {"idle", "crashed"}
       /\ pc \notin {"idle", "crashed"} => job' = job
       /\ file' # file => (job = "check" /\ pc \in {"save", "dump"})]_vars

\* Two jobs were due: the check cycle ran to its end and saved, and the
\* summary cycle is now running on the snapshot it wrote.
C12_Witness ==
    /\ job = "summary" /\ pc = "send"
    /\ lastCheck.done
    /\ Fetched(previous_data, 1) = MaxItems

\* C13: in a check cycle the file is left as it was loaded until the loop
\* over the communities is over; current_data holds an entry for each
\* community fetched so far in this cycle and no other, in the configured
\* order; the save starts after the last community; and when the save
\* completes, the file holds exactly current_data.
C13_SnapshotIsThisCycle ==
    /\ [](job = "check" =>
            /\ pc \in {"fetch", "notify", "save"} =>
                 load_previous_data(file) = [ok |-> TRUE, data |-> previous_data]
            /\ pc = "fetch" => Keys(current_data) = SubSeq(COMMUNITIES, 1, i - 1)
            /\ pc = "notify" => Keys(current_data) = SubSeq(COMMUNITIES, 1, i)
            /\ pc \in {"save", "dump"} =>
                 (i = Len(COMMUNITIES) + 1 /\ Keys(current_data) = COMMUNITIES))
    /\ [][(job = "check" /\ pc = "dump" /\ pc' = "idle") =>
            load_previous_data(file') = [ok |-> TRUE, data |-> current_data]]_vars

\* A completed cycle wrote over an earlier snapshot: its one fetched quest
\* was known already, nothing was notified, and the file holds that quest
\* and an empty list for the other community.
C13_Witness ==
    /\ job = "check" /\ pc = "idle" /\ outcome = "done"
    /\ fetchFailed = {} /\ sent = <<>>
    /\ Keys(Loaded(file)) = COMMUNITIES
    /\ Len(DictGet(Loaded(file), "alpha", <<>>)) = 0
    /\ Len(DictGet(Loaded(file), "beta", <<>>)) = 1

Idx(community) == CHOOSE n \in 1..Len(COMMUNITIES) : COMMUNITIES[n] = community

NewCount(community) == Len(Unseen(Now(community), Before(community)))

\* C14: in a check cycle the attempts are logged community by community in
\* the configured order, none for a community whose turn has not come; when
\* a community is fetched, every message of the communities before it has
\* been attempted; while a community is notified, the j-th send starts with
\* exactly j - 1 of its messages attempted; and when the save starts, every
\* message of the cycle has been attempted.
C14_NotificationsInOrder ==
    InCheck =>
      /\ \A n \in 1..Len(sent) :
           /\ Idx(sent[n].community) <= i
           /\ pc = "fetch" => Idx(sent[n].community) < i
           /\ \A m \in 1..(n - 1) : Idx(sent[m].community) <= Idx(sent[n].community)
      /\ pc = "fetch" =>
           \A n \in 1..(i - 1) : Len(SentTo(COMMUNITIES[n])) = NewCount(COMMUNITIES[n])
      /\ pc = "notify" =>
           /\ j \in 1..Len(new_quests)
           /\ Len(SentTo(COMMUNITIES[i])) = j - 1
           /\ \A n \in 1..(i - 1) : Len(SentTo(COMMUNITIES[n])) = NewCount(COMMUNITIES[n])
      /\ pc \in {"save", "dump"} =>
           \A n \in 1..Len(COMMUNITIES) :
             Len(SentTo(COMMUNITIES[n])) = NewCount(COMMUNITIES[n])

\* beta is being notified after alpha's message has been attempted.
C14_Witness ==
    /\ job = "check" /\ pc = "notify" /\ i = 2 /\ j = 1
    /\ Len(sent) = 1 /\ sent[1].community = "alpha"
    /\ new_quests # <<>>
    /\ file.exists

\* C15: when the handler of a cycle has caught an exception, no error alert
\* has been attempted yet and, in a check cycle that had loaded its snapshot,
\* the file still holds that snapshot; when the aborted cycle has ended,
\* exactly one error alert has been attempted.
C15_AbortIsClean ==
    /\ pc = "error" => errors = 0
    /\ (pc = "idle" /\ outcome = "aborted") => errors = 1
    /\ (pc = "error" /\ job = "check" /\ err # "JSONDecodeError") =>
         load_previous_data(file) = [ok |-> TRUE, data |-> previous_data]

InList(q, list) == \E n \in 1..Len(list) : list[n] = q

\* C16: when a check cycle has completed, every quest whose message was not
\* delivered is in the snapshot the file holds, and no fetch result of its
\* community diffed against that snapshot yields a quest with its id; and in
\* the check cycle after a completed one nothing is attempted for a quest
\* whose id is in the list the completed cycle saved for the community.
C16_FailedIsNotRetried ==
    /\ (job = "check" /\ pc = "idle" /\ outcome = "done") =>
         \A n \in 1..Len(sent) :
           ~sent[n].delivered =>
             LET c == sent[n].community
                 q == sent[n].quest
                 saved == DictGet(Loaded(file), c, <<>>)
             IN /\ load_previous_data(file).ok
                /\ InList(q, saved)
                /\ \A cur \in SeqsUpTo(Quests(c), MaxItems) :
                     \A k \in 1..Len(NewQuests(cur, saved)) :
                       NewQuests(cur, saved)[k].id # q.id
    /\ (InCheck /\ lastCheck.done) =>
         \A n \in 1..Len(sent) :
           ~SeenId(sent[n].quest, DictGet(lastCheck.data, sent[n].community, <<>>))

\* A cycle completed with both of its messages undelivered; both quests are
\* in the file.
C16_Witness ==
    /\ job = "check" /\ pc = "idle" /\ outcome = "done"
    /\ Len(sent) = MaxItems
    /\ \A n \in 1..Len(sent) :
         /\ ~sent[n].delivered
         /\ InList(sent[n].quest, DictGet(Loaded(file), sent[n].community, <<>>))

\* C17: when a check cycle has completed, the file holds the empty list for
\* every community whose fetch failed, and any fetch result of that community
\* diffed against it is new as a whole; and in the check cycle after a
\* completed one, for a community the completed cycle saved the empty list
\* for and whose turn is over, a message was attempted for every fetched
\* quest.
C17_FailedFetchIsZeroItems ==
    /\ (job = "check" /\ pc = "idle" /\ outcome = "done") =>
         \A c \in fetchFailed :
           /\ load_previous_data(file).ok
           /\ DictGet(Loaded(file), c, <<c>>) = <<>>
           /\ \A cur \in SeqsUpTo(Quests(c), MaxItems) :
                NewQuests(cur, OldQuests(Loaded(file), c)) = cur
    /\ (InCheck /\ lastCheck.done) =>
         \A n \in 1..(i - 1) :
           DictGet(lastCheck.data, COMMUNITIES[n], <<COMMUNITIES[n]>>) = <<>>
             => QuestsOf(SentTo(COMMUNITIES[n])) = Now(COMMUNITIES[n])

\* A cycle that found nothing new for alpha, so one that ran on an earlier
\* snapshot, completed with beta's fetch failed: the file holds alpha's
\* quests and [] for beta.
C17_Witness ==
    /\ job = "check" /\ pc = "idle" /\ outcome = "done"
    /\ fetchFailed = {"beta"}
    /\ sent = <<>>
    /\ Len(DictGet(Loaded(file), "alpha", <<>>)) = MaxItems
    /\ DictGet(Loaded(file), "beta", <<"beta">>) = <<>>

\* C18: when a check cycle that attempted messages has been aborted by its
\* handler, the file can be loaded and the id of no quest it attempted a
\* message for is in the list the file holds for the community, so that the
\* next check cycle finds each of them new again.
C18_AbortedCycleIsRenotified ==
    (job = "check" /\ pc = "idle" /\ outcome = "aborted" /\ sent # <<>>) =>
      /\ load_previous_data(file).ok
      /\ \A n \in 1..Len(sent) :
           ~SeenId(sent[n].quest, DictGet(Loaded(file), sent[n].community, <<>>))

\* C19: no step of a summary cycle, from its load to its end, by delivery,
\* by a failed delivery or by the handler, changes the file, and no new-quest
\* message is attempted in it.
C19_SummaryLeavesSnapshot ==
    [][(job = "summary" /\ pc \in {"load", "send", "error"}) =>
         (file' = file /\ sent = <<>> /\ sent' = <<>>)]_vars

\* A summary cycle whose send failed has ended with its error alert; the file
\* still holds the snapshot of the last check cycle.
C19_Witness ==
    /\ job = "summary" /\ pc = "idle" /\ outcome = "aborted"
    /\ err = "TelegramError" /\ errors = 1
    /\ sent = <<>>
    /\ lastCheck.done
    /\ Fetched(lastCheck.data, 1) = MaxItems
    /\ load_previous_data(file) = [ok |-> TRUE, data |-> lastCheck.data]

\* ------------------------------------------------- the diff on its own
\* q.get("id") of a dict without an "id" key, or with "id": null.
None == "None"

\* Quest dicts as lines 118-120 accept them: those fetch_tasks builds, and
\* dicts whose id is missing or null.
DiffQuests ==
    Quests("alpha")
    \cup { [id |-> None, title |-> t, url |-> Url("alpha")] : t \in {"Quest C", "Quest D"} }

\* Lines 118-120 for one community, on any two lists of quest dicts.
DiffInit ==
    /\ pc = "diff"
    /\ job = "check"
    /\ \E old \in SeqsUpTo(DiffQuests, MaxItems) :
         previous_data = <<[k |-> "alpha", v |-> old]>>
    /\ \E cur \in SeqsUpTo(DiffQuests, MaxItems) :
         current_data = <<[k |-> "alpha", v |-> cur]>>
    /\ file = [exists |-> FALSE, content |-> <<>>]
    /\ i = 1
    /\ new_quests = <<>>
    /\ j = 1
    /\ err = ""
    /\ sent = <<>>
    /\ summaries = <<>>
    /\ errors = 0
    /\ fetchFailed = {}
    /\ outcome = "running"
    /\ lastCheck = NoRun

DiffStep ==
    /\ pc = "diff"
    /\ new_quests' = NewQuests(DictGet(current_data, COMMUNITIES[i], <<>>),
                               OldQuests(previous_data, COMMUNITIES[i]))
    /\ pc' = "diffed"
    /\ UNCHANGED <<file, job, previous_data, current_data, i, j, err, sent,
                   summaries, errors, fetchFailed, outcome, lastCheck>>

DiffNext == DiffStep

DiffSpec == DiffInit /\ [][DiffNext]_vars

====
